---- MODULE Spec2Model ----
(***************************************************************************)
(* Model of src/knn_dtw/main.py: a straight-line driver script that builds *)
(* two sine series, calls KnnDtw._dtw_distance on them once and plots both *)
(* series with the distance in the title.                                  *)
(*                                                                         *)
(* A run is one execution of the script by one interpreter.  Every         *)
(* variable is indexed by the run; pc[r] is the line of the next statement *)
(* of run r (0: the run was never started).  What the script cannot decide *)
(* itself is the environment env[r] of the run: whether the imported       *)
(* modules load, how the optional IPython import ends, and how the         *)
(* external KnnDtw class (not part of main.py) behaves.                    *)
(*                                                                         *)
(* numpy values are kept symbolically: a sample of time is the rational    *)
(* num/den, sin is an uninterpreted term [sin |-> x], a scaling is         *)
(* [coef |-> k, of |-> v].  A distance is a multiple of 1/8, so that it is *)
(* a binary floating point number and '%.2f' has ties to round.            *)
(***************************************************************************)
EXTENDS Integers, Sequences, FiniteSets, TLC

\* np.linspace(0, 20, 1000): the number of samples
NumSamples == 1000
\* the line after the last statement of the script
EndOfScript == 38
\* distances returned by the external call range over 0/8 .. MaxDist/8
MaxDist == 4

Runs == {1, 2}

VARIABLES pc, globals, style, figures, calls, active, error, env

vars == <<pc, globals, style, figures, calls, active, error, env>>

----------------------------------------------------------------------------
(* The environment of a run *)

DtwOutcomes ==
  {[outcome |-> "return", value |-> v] : v \in 0..MaxDist}
    \cup {[outcome |-> "raise", value |-> 0], [outcome |-> "hang", value |-> 0]}

Envs ==
  [modules : {"ok", "ImportError"},
   ipython : {"ok", "ImportError", "error"},
   ctor    : {"ok", "raise"},
   dtw     : DtwOutcomes]

----------------------------------------------------------------------------
(* Python and library operations *)

\* name = value in the module namespace (a later binding replaces an earlier)
Bind(g, name, value) == (name :> value) @@ g

IsBound(g, name) == name \in DOMAIN g

\* np.linspace(start, stop, num), endpoint included: num evenly spaced samples
Linspace(start, stop, num) ==
  [i \in 1..num |->
     [num |-> start * (num - 1) + (stop - start) * (i - 1), den |-> num - 1]]

\* array + c, elementwise
AddScalar(arr, c) ==
  [i \in DOMAIN arr |-> [num |-> arr[i].num + c * arr[i].den, den |-> arr[i].den]]

\* np.sin(array), elementwise
Sin(arr) == [i \in DOMAIN arr |-> [sin |-> arr[i]]]

\* k * array, elementwise
MulScalar(k, arr) == [i \in DOMAIN arr |-> [coef |-> k, of |-> arr[i]]]

\* variant of Format2f: the format '%.1f', one decimal instead of two
Format2f_OneDecimal(k) ==
  LET q == (k * 10) \div 8
      rem == (k * 10) % 8
      c == IF rem < 4 THEN q
           ELSE IF rem > 4 THEN q + 1
           ELSE IF q % 2 = 0 THEN q ELSE q + 1
  IN  [whole |-> c \div 10, frac |-> 10 * (c % 10)]

\* '%.2f' % d for d = k/8: the hundredths nearest to d, a tie going to the
\* even neighbour (the conversion rounds the exact binary value)
Format2f(k) ==
  LET q == (k * 100) \div 8
      rem == (k * 100) % 8
      c == IF rem < 4 THEN q
           ELSE IF rem > 4 THEN q + 1
           ELSE IF q % 2 = 0 THEN q ELSE q + 1
  IN  [whole |-> c \div 100, frac |-> c % 100]

\* matplotlib.pyplot: a new figure, which becomes the current one
NewFigure(figsize) ==
  [figsize |-> figsize, lines |-> <<>>, title |-> <<>>, ylabel |-> <<>>,
   xlabel |-> <<>>, legend |-> <<>>]

\* pyplot acts on the current figure and makes a default one when there is none
Gcf(figs) == IF figs = <<>> THEN <<NewFigure(<<>>)>> ELSE figs

OnCurrent(figs, field, value) ==
  LET fs == Gcf(figs)
  IN  [fs EXCEPT ![Len(fs)] = [@ EXCEPT ![field] = value]]

PltPlot(figs, x, y, label) ==
  LET fs == Gcf(figs)
  IN  [fs EXCEPT ![Len(fs)].lines = Append(@, [x |-> x, y |-> y, label |-> label])]

\* plt.legend(): one entry per labelled line of the current figure
PltLegend(figs) ==
  LET fs == Gcf(figs)
      ls == fs[Len(fs)].lines
  IN  [fs EXCEPT ![Len(fs)].legend = <<[i \in 1..Len(ls) |-> ls[i].label]>>]

Call(fn, args) == [fn |-> fn, args |-> args]

----------------------------------------------------------------------------
(* The script, statement by statement *)

Running(r) == pc[r] \in 1..(EndOfScript - 1) /\ error[r] = "none" /\ active[r] = <<>>

Goto(r, line) == pc' = [pc EXCEPT ![r] = line]

Assign(r, name, value) == globals' = [globals EXCEPT ![r] = Bind(@, name, value)]

Log(r, fn, args) == calls' = [calls EXCEPT ![r] = Append(@, Call(fn, args))]

Raise(r, exc) == error' = [error EXCEPT ![r] = exc]

\* lines 1-8: the imports; a module that fails to load ends the run
ImportModules(r) ==
  /\ Running(r) /\ pc[r] = 1
  /\ \/ /\ env[r].modules = "ok"
        /\ globals' = [globals EXCEPT ![r] =
             [n \in {"sys", "collections", "itertools", "np", "plt", "mode", "knn_dtw"}
                |-> "module"] @@ @]
        /\ Goto(r, 10)
        /\ UNCHANGED error
     \/ /\ env[r].modules = "ImportError"
        /\ Raise(r, "ImportError")
        /\ UNCHANGED <<pc, globals>>
  /\ UNCHANGED <<style, figures, calls, active, env>>

\* line 10: plt.style.use('bmh')
UseStyle(r) ==
  /\ Running(r) /\ pc[r] = 10
  /\ style' = [style EXCEPT ![r] = "bmh"]
  /\ Log(r, "plt.style.use", <<"bmh">>)
  /\ Goto(r, 13)
  /\ UNCHANGED <<globals, figures, active, error, env>>

\* variant of ImportIPython: the import without its try/except
ImportIPython_Uncaught(r) ==
  /\ Running(r) /\ pc[r] = 13
  /\ \/ /\ env[r].ipython = "ok"
        /\ Assign(r, "clear_output", "function")
        /\ Goto(r, 14)
        /\ UNCHANGED error
     \/ /\ env[r].ipython # "ok"
        /\ Raise(r, "IPythonError")
        /\ UNCHANGED <<pc, globals>>
  /\ UNCHANGED <<style, figures, calls, active, env>>

\* lines 12-13: try: from IPython.display import clear_output
\* line 15: except ImportError catches an ImportError and nothing else
ImportIPython(r) ==
  /\ Running(r) /\ pc[r] = 13
  /\ \/ /\ env[r].ipython = "ok"
        /\ Assign(r, "clear_output", "function")
        /\ Goto(r, 14)
        /\ UNCHANGED error
     \/ /\ env[r].ipython = "ImportError"
        /\ Goto(r, 16)
        /\ UNCHANGED <<globals, error>>
     \/ /\ env[r].ipython = "error"
        /\ Raise(r, "IPythonError")
        /\ UNCHANGED <<pc, globals>>
  /\ UNCHANGED <<style, figures, calls, active, env>>

\* line 14: have_ipython = True
SetHaveIPython(r) ==
  /\ Running(r) /\ pc[r] = 14
  /\ Assign(r, "have_ipython", TRUE)
  /\ Goto(r, 23)
  /\ UNCHANGED <<style, figures, calls, active, error, env>>

\* line 16: have_ipython = False
ClearHaveIPython(r) ==
  /\ Running(r) /\ pc[r] = 16
  /\ Assign(r, "have_ipython", FALSE)
  /\ Goto(r, 23)
  /\ UNCHANGED <<style, figures, calls, active, error, env>>

\* line 23: time = np.linspace(0, 20, 1000)
AssignTime(r) ==
  /\ Running(r) /\ pc[r] = 23
  /\ Assign(r, "time", Linspace(0, 20, NumSamples))
  /\ Goto(r, 24)
  /\ UNCHANGED <<style, figures, calls, active, error, env>>

\* line 24: amplitude_a = 5*np.sin(time)
AssignAmplitudeA(r) ==
  /\ Running(r) /\ pc[r] = 24
  /\ Assign(r, "amplitude_a", MulScalar(5, Sin(globals[r].time)))
  /\ Goto(r, 25)
  /\ UNCHANGED <<style, figures, calls, active, error, env>>

\* variant of AssignAmplitudeB: the series is computed from time[1:]
AssignAmplitudeB_Tail(r) ==
  /\ Running(r) /\ pc[r] = 25
  /\ Assign(r, "amplitude_b", MulScalar(3, Sin(AddScalar(Tail(globals[r].time), 1))))
  /\ Goto(r, 27)
  /\ UNCHANGED <<style, figures, calls, active, error, env>>

\* line 25: amplitude_b = 3*np.sin(time + 1)
AssignAmplitudeB(r) ==
  /\ Running(r) /\ pc[r] = 25
  /\ Assign(r, "amplitude_b", MulScalar(3, Sin(AddScalar(globals[r].time, 1))))
  /\ Goto(r, 27)
  /\ UNCHANGED <<style, figures, calls, active, error, env>>

\* line 27: m = knn_dtw.KnnDtw(); an exception of the constructor is not caught
ConstructKnnDtw(r) ==
  /\ Running(r) /\ pc[r] = 27
  /\ Log(r, "KnnDtw", <<>>)
  /\ \/ /\ env[r].ctor = "ok"
        /\ Assign(r, "m", "KnnDtw")
        /\ Goto(r, 29)
        /\ UNCHANGED error
     \/ /\ env[r].ctor = "raise"
        /\ Raise(r, "KnnDtwError")
        /\ UNCHANGED <<pc, globals>>
  /\ UNCHANGED <<style, figures, active, env>>

\* variant of CallDtwDistance: the function is called twice, the first
\* result being dropped
CallDtwDistance_Twice(r) ==
  /\ Running(r) /\ pc[r] = 29
  /\ calls' = [calls EXCEPT ![r] =
       Append(Append(@, Call("_dtw_distance",
                             <<globals[r].amplitude_a, globals[r].amplitude_b>>)),
              Call("_dtw_distance", <<globals[r].amplitude_a, globals[r].amplitude_b>>))]
  /\ active' = [active EXCEPT ![r] = <<"_dtw_distance">>]
  /\ UNCHANGED <<pc, globals, style, figures, error, env>>

\* variant of CallDtwDistance: the call is handed to a thread and the script
\* goes on to line 31 without waiting for it
CallDtwDistance_Async(r) ==
  /\ Running(r) /\ pc[r] = 29
  /\ Log(r, "_dtw_distance", <<globals[r].amplitude_a, globals[r].amplitude_b>>)
  /\ active' = [active EXCEPT ![r] = <<"_dtw_distance">>]
  /\ Goto(r, 31)
  /\ UNCHANGED <<globals, style, figures, error, env>>

\* line 29, the call: m._dtw_distance(amplitude_a, amplitude_b) is entered
CallDtwDistance(r) ==
  /\ Running(r) /\ pc[r] = 29
  /\ Log(r, "_dtw_distance", <<globals[r].amplitude_a, globals[r].amplitude_b>>)
  /\ active' = [active EXCEPT ![r] = <<"_dtw_distance">>]
  /\ UNCHANGED <<pc, globals, style, figures, error, env>>

\* line 29, the return: distance = <the value returned>
ReturnDtwDistance(r) ==
  /\ pc[r] = 29 /\ error[r] = "none" /\ active[r] = <<"_dtw_distance">>
  /\ env[r].dtw.outcome = "return"
  /\ active' = [active EXCEPT ![r] = <<>>]
  /\ Assign(r, "distance", env[r].dtw.value)
  /\ Goto(r, 31)
  /\ UNCHANGED <<style, figures, calls, error, env>>

\* variant of RaiseDtwDistance: the exception is caught and the script goes
\* on with a distance of 0
RaiseDtwDistance_Caught(r) ==
  /\ pc[r] = 29 /\ error[r] = "none" /\ active[r] = <<"_dtw_distance">>
  /\ env[r].dtw.outcome = "raise"
  /\ active' = [active EXCEPT ![r] = <<>>]
  /\ Assign(r, "distance", 0)
  /\ Goto(r, 31)
  /\ UNCHANGED <<style, figures, calls, error, env>>

\* line 29, the call raises: nothing catches it and the run ends
RaiseDtwDistance(r) ==
  /\ pc[r] = 29 /\ error[r] = "none" /\ active[r] = <<"_dtw_distance">>
  /\ env[r].dtw.outcome = "raise"
  /\ active' = [active EXCEPT ![r] = <<>>]
  /\ Raise(r, "DtwError")
  /\ UNCHANGED <<pc, globals, style, figures, calls, env>>

\* line 31: fig = plt.figure(figsize=(12, 4))
CreateFigure(r) ==
  /\ Running(r) /\ pc[r] = 31
  /\ figures' = [figures EXCEPT ![r] = Append(@, NewFigure(<<12, 4>>))]
  /\ Log(r, "plt.figure", <<12, 4>>)
  /\ Assign(r, "fig", Len(figures[r]) + 1)
  /\ Goto(r, 32)
  /\ UNCHANGED <<style, active, error, env>>

\* line 32: _ = plt.plot(time, amplitude_a, label='A')
PlotA(r) ==
  /\ Running(r) /\ pc[r] = 32
  /\ figures' = [figures EXCEPT ![r] =
                   PltPlot(@, globals[r].time, globals[r].amplitude_a, "A")]
  /\ Log(r, "plt.plot", <<globals[r].time, globals[r].amplitude_a, "A">>)
  /\ Assign(r, "_", "Line2D")
  /\ Goto(r, 33)
  /\ UNCHANGED <<style, active, error, env>>

\* line 33: _ = plt.plot(time, amplitude_b, label='B')
PlotB(r) ==
  /\ Running(r) /\ pc[r] = 33
  /\ figures' = [figures EXCEPT ![r] =
                   PltPlot(@, globals[r].time, globals[r].amplitude_b, "B")]
  /\ Log(r, "plt.plot", <<globals[r].time, globals[r].amplitude_b, "B">>)
  /\ Assign(r, "_", "Line2D")
  /\ Goto(r, 34)
  /\ UNCHANGED <<style, active, error, env>>

\* the text of line 34: 'DTW distance between A and B is %.2f' % distance
TitleText(d) == [text |-> "DTW distance between A and B is ", number |-> Format2f(d)]

\* line 34: _ = plt.title('DTW distance between A and B is %.2f' % distance)
Title(r) ==
  /\ Running(r) /\ pc[r] = 34
  /\ figures' = [figures EXCEPT ![r] =
                   OnCurrent(@, "title", <<TitleText(globals[r].distance)>>)]
  /\ Log(r, "plt.title", <<TitleText(globals[r].distance)>>)
  /\ Assign(r, "_", "Text")
  /\ Goto(r, 35)
  /\ UNCHANGED <<style, active, error, env>>

\* variant of YLabel: plt.title is called in the place of plt.ylabel
YLabel_AsTitle(r) ==
  /\ Running(r) /\ pc[r] = 35
  /\ figures' = [figures EXCEPT ![r] = OnCurrent(@, "title", <<"Amplitude">>)]
  /\ Log(r, "plt.title", <<"Amplitude">>)
  /\ Assign(r, "_", "Text")
  /\ Goto(r, 36)
  /\ UNCHANGED <<style, active, error, env>>

\* line 35: _ = plt.ylabel('Amplitude')
YLabel(r) ==
  /\ Running(r) /\ pc[r] = 35
  /\ figures' = [figures EXCEPT ![r] = OnCurrent(@, "ylabel", <<"Amplitude">>)]
  /\ Log(r, "plt.ylabel", <<"Amplitude">>)
  /\ Assign(r, "_", "Text")
  /\ Goto(r, 36)
  /\ UNCHANGED <<style, active, error, env>>

\* line 36: _ = plt.xlabel('Time')
XLabel(r) ==
  /\ Running(r) /\ pc[r] = 36
  /\ figures' = [figures EXCEPT ![r] = OnCurrent(@, "xlabel", <<"Time">>)]
  /\ Log(r, "plt.xlabel", <<"Time">>)
  /\ Assign(r, "_", "Text")
  /\ Goto(r, 37)
  /\ UNCHANGED <<style, active, error, env>>

\* variant of Legend: the legend is drawn only in an interactive session
Legend_IfInteractive(r) ==
  /\ Running(r) /\ pc[r] = 37
  /\ IF globals[r].have_ipython
       THEN /\ figures' = [figures EXCEPT ![r] = PltLegend(@)]
            /\ Log(r, "plt.legend", <<>>)
            /\ Assign(r, "_", "Legend")
       ELSE UNCHANGED <<figures, calls, globals>>
  /\ Goto(r, EndOfScript)
  /\ UNCHANGED <<style, active, error, env>>

\* line 37: _ = plt.legend(); the script ends after it
Legend(r) ==
  /\ Running(r) /\ pc[r] = 37
  /\ figures' = [figures EXCEPT ![r] = PltLegend(@)]
  /\ Log(r, "plt.legend", <<>>)
  /\ Assign(r, "_", "Legend")
  /\ Goto(r, EndOfScript)
  /\ UNCHANGED <<style, active, error, env>>

----------------------------------------------------------------------------
(* Specifications *)

\* the state of a run that was never started
Idle ==
  [pc |-> 0, globals |-> ("__name__" :> "__main__"), style |-> "default",
   figures |-> <<>>, calls |-> <<>>, active |-> <<>>, error |-> "none"]

\* the state of a run as the interpreter enters line 1
Started == [Idle EXCEPT !.pc = 1]

InitRuns(start) ==
  /\ pc = [r \in Runs |-> start[r].pc]
  /\ globals = [r \in Runs |-> start[r].globals]
  /\ style = [r \in Runs |-> start[r].style]
  /\ figures = [r \in Runs |-> start[r].figures]
  /\ calls = [r \in Runs |-> start[r].calls]
  /\ active = [r \in Runs |-> start[r].active]
  /\ error = [r \in Runs |-> start[r].error]

\* one run of the script, in any environment
Init ==
  /\ InitRuns([r \in Runs |-> IF r = 1 THEN Started ELSE Idle])
  /\ \E e \in Envs : env = [r \in Runs |-> e]

\* two runs whose environments differ only in the IPython import: it
\* succeeds in run 1 and raises ImportError in run 2
InitPair ==
  /\ InitRuns([r \in Runs |-> Started])
  /\ \E e \in Envs :
        env = [r \in Runs |-> [e EXCEPT !.ipython = IF r = 1 THEN "ok" ELSE "ImportError"]]

Step(r) ==
  \/ ImportModules(r)
  \/ UseStyle(r)
  \/ ImportIPython(r)
  \/ SetHaveIPython(r)
  \/ ClearHaveIPython(r)
  \/ AssignTime(r)
  \/ AssignAmplitudeA(r)
  \/ AssignAmplitudeB(r)
  \/ ConstructKnnDtw(r)
  \/ CallDtwDistance(r)
  \/ ReturnDtwDistance(r)
  \/ RaiseDtwDistance(r)
  \/ CreateFigure(r)
  \/ PlotA(r)
  \/ PlotB(r)
  \/ Title(r)
  \/ YLabel(r)
  \/ XLabel(r)
  \/ Legend(r)

Next == \E r \in Runs : Step(r)

Spec == Init /\ [][Next]_vars

\* the interpreter executes the next statement of a run whenever there is one
FairSpec == Spec /\ \A r \in Runs : WF_vars(Step(r))

PairSpec == InitPair /\ [][Next]_vars

----------------------------------------------------------------------------
(* Vocabulary of the properties *)

WasStarted(r) == pc[r] # 0

Finished(r) == pc[r] = EndOfScript /\ error[r] = "none"

\* the names of the external calls a run has made, in order
Fns(r) == [i \in 1..Len(calls[r]) |-> calls[r][i].fn]

\* how many calls of fn the run has made
Count(r, fn) == Cardinality({i \in 1..Len(calls[r]) : calls[r][i].fn = fn})

\* the calls of the script in the order of its text
ScriptCalls ==
  <<"plt.style.use", "KnnDtw", "_dtw_distance", "plt.figure", "plt.plot",
    "plt.plot", "plt.title", "plt.ylabel", "plt.xlabel", "plt.legend">>

IsPrefix(s, t) == Len(s) <= Len(t) /\ \A i \in 1..Len(s) : s[i] = t[i]

\* the arguments the distance call received
DtwArgs(r) == calls[r][CHOOSE i \in 1..Len(calls[r]) : calls[r][i].fn = "_dtw_distance"].args

\* the distance call was made and has returned
DtwReturned(r) ==
  Count(r, "_dtw_distance") = 1 /\ active[r] = <<>> /\ IsBound(globals[r], "distance")

\* something of a figure exists or was asked for
FigureTouched(r) ==
  \/ figures[r] # <<>>
  \/ \E i \in 1..Len(calls[r]) :
        calls[r][i].fn \in {"plt.figure", "plt.plot", "plt.title", "plt.ylabel",
                            "plt.xlabel", "plt.legend"}

TitleSet(r) == figures[r] # <<>> /\ figures[r][Len(figures[r])].title # <<>>

\* the hundredths a formatted number shows
Hundredths(n) == 100 * n.whole + n.frac

----------------------------------------------------------------------------
(* C1 *)

C1State(r) ==
  /\ IsPrefix(Fns(r), ScriptCalls)
  /\ Count(r, "_dtw_distance") <= 1
  /\ Count(r, "_dtw_distance") = 1 =>
       /\ IsBound(globals[r], "amplitude_a") /\ IsBound(globals[r], "amplitude_b")
       /\ DtwArgs(r) = <<globals[r].amplitude_a, globals[r].amplitude_b>>
  /\ FigureTouched(r) => DtwReturned(r)
  /\ pc[r] >= 31 => DtwReturned(r)
  /\ Finished(r) => Fns(r) = ScriptCalls

\* C1: the steps of a run occur in one fixed order and never go back to an
\* earlier line: both series exist before the distance function is called,
\* it is called at most once at any time and exactly once in a run that
\* reaches the plot, and a figure is created or titled only after that call
\* has returned.
C1_FixedOrder ==
  /\ [](\A r \in Runs : C1State(r))
  /\ [][\A r \in Runs : pc'[r] >= pc[r] /\ IsPrefix(calls[r], calls'[r])]_vars

C1_Witness == Finished(1) /\ Fns(1) = ScriptCalls /\ TitleSet(1)

----------------------------------------------------------------------------
(* C2 *)

C2State(r) ==
  /\ IsBound(globals[r], "distance") =>
       /\ env[r].dtw.outcome = "return"
       /\ globals[r].distance = env[r].dtw.value
  /\ TitleSet(r) =>
       LET t == figures[r][Len(figures[r])].title[1]
           d == 8 * Hundredths(t.number) - 100 * env[r].dtw.value
       IN  /\ t.text = "DTW distance between A and B is "
           /\ t.number.frac \in 0..99
           /\ d \in -4..4
  /\ \A f \in 1..Len(figures[r]) : \A i \in 1..Len(figures[r][f].lines) :
       LET l == figures[r][f].lines[i]
       IN  /\ Count(r, "_dtw_distance") = 1
           /\ i \in 1..2
           /\ l.y = DtwArgs(r)[i]
           /\ l.label = <<"A", "B">>[i]

\* C2: the number in the plot title is the value returned by the one call
\* of _dtw_distance, rounded to two decimals (it differs from the returned
\* value by at most half a hundredth); distance is bound by that return and
\* never rebound afterwards; and the lines labelled 'A' and 'B' are the
\* first and the second argument of the distance call.
C2_TitleShowsDistance ==
  /\ [](\A r \in Runs : C2State(r))
  /\ [][\A r \in Runs : IsBound(globals[r], "distance") =>
          /\ IsBound(globals'[r], "distance")
          /\ globals'[r].distance = globals[r].distance]_vars

\* a title of a distance that is not a whole number of hundredths (3/8)
C2_Witness ==
  /\ TitleSet(1) /\ env[1].dtw.value = 3
  /\ Len(figures[1][1].lines) = 2
  /\ figures[1][1].title[1].number = [whole |-> 0, frac |-> 38]

----------------------------------------------------------------------------
(* C3 *)

\* the line that follows a line whose statement neither raises nor branches
NextLine(line) ==
  CASE line = 1 -> 10 [] line = 10 -> 13 [] line = 14 -> 23 [] line = 16 -> 23
    [] line = 23 -> 24 [] line = 24 -> 25 [] line = 25 -> 27 [] line = 27 -> 29
    [] line = 29 -> 31 [] line = 37 -> EndOfScript
    [] OTHER -> line + 1

C3State(r) ==
  /\ pc[r] >= 23 =>
       /\ IsBound(globals[r], "have_ipython")
       /\ globals[r].have_ipython <=> (env[r].ipython = "ok")
  /\ pc[r] < 14 => ~IsBound(globals[r], "have_ipython")
  /\ (env[r].ipython = "ImportError" /\ env[r].modules = "ok") =>
       error[r] \in {"none", "KnnDtwError", "DtwError"}

C3Step(r) ==
  /\ (pc'[r] # pc[r] /\ pc[r] # 13) => pc'[r] = NextLine(pc[r])
  /\ (pc'[r] # pc[r] /\ pc[r] = 13) =>
       pc'[r] = IF env[r].ipython = "ok" THEN 14 ELSE 16

\* C3: the IPython import is the only statement after which the next line
\* depends on anything: an ImportError of it does not end the run, which
\* goes on to the distance call and, when that returns, to the plot; and
\* from line 23 on have_ipython is True exactly when the import succeeded.
C3_OptionalImport ==
  /\ [](\A r \in Runs : C3State(r))
  /\ [][\A r \in Runs : C3Step(r)]_vars
  /\ \A r \in Runs :
       (WasStarted(r) /\ env[r].modules = "ok" /\ env[r].ipython = "ImportError"
          /\ env[r].ctor = "ok")
         => <>(Count(r, "_dtw_distance") = 1)
  /\ \A r \in Runs :
       (WasStarted(r) /\ env[r].modules = "ok" /\ env[r].ipython = "ImportError"
          /\ env[r].ctor = "ok" /\ env[r].dtw.outcome = "return")
         => <>(Finished(r) /\ TitleSet(r))

C3_Witness ==
  /\ env[1].ipython = "ImportError" /\ Finished(1) /\ TitleSet(1)
  /\ globals[1].have_ipython = FALSE

----------------------------------------------------------------------------
(* C4 *)

C4State(r) ==
  /\ Count(r, "KnnDtw") <= 1 /\ Count(r, "_dtw_distance") <= 1
  /\ (Count(r, "KnnDtw") = 1 /\ env[r].ctor = "raise") =>
       /\ error[r] = "KnnDtwError"
       /\ Count(r, "_dtw_distance") = 0
       /\ ~FigureTouched(r)
  /\ (Count(r, "_dtw_distance") = 1 /\ env[r].dtw.outcome = "raise") =>
       /\ active[r] = <<>> => error[r] = "DtwError"
       /\ ~IsBound(globals[r], "distance")
       /\ ~FigureTouched(r)

\* C4: a failure of KnnDtw() or of _dtw_distance is not caught: the run
\* ends there with the exception, the failed call is not made again, and no
\* figure is created or titled; a run that has ended with an exception does
\* nothing more.
C4_NoRecovery ==
  /\ [](\A r \in Runs : C4State(r))
  /\ [][\A r \in Runs : error[r] # "none" =>
          /\ error'[r] = error[r] /\ pc'[r] = pc[r] /\ calls'[r] = calls[r]
          /\ figures'[r] = figures[r] /\ globals'[r] = globals[r]]_vars

C4_Witness ==
  /\ error[1] = "DtwError" /\ Count(1, "_dtw_distance") = 1 /\ figures[1] = <<>>

C4_WitnessCtor ==
  /\ error[1] = "KnnDtwError" /\ Count(1, "KnnDtw") = 1 /\ figures[1] = <<>>

----------------------------------------------------------------------------
(* C5 *)

\* C5: within a run at most one call is in progress, no other call starts
\* and nothing is plotted or bound while one is, and a line is left only
\* when its statement is complete.
C5_Synchronous ==
  /\ [](\A r \in Runs : Len(active[r]) <= 1)
  /\ [][\A r \in Runs :
          /\ calls'[r] # calls[r] => active[r] = <<>>
          /\ figures'[r] # figures[r] => (active[r] = <<>> /\ active'[r] = <<>>)
          /\ pc'[r] # pc[r] => active'[r] = <<>>
          /\ (globals'[r] # globals[r] /\ active[r] # <<>>) => active'[r] = <<>>]_vars

\* the distance call is in progress, later the plot is complete
C5_WitnessInCall == active[1] = <<"_dtw_distance">> /\ pc[1] = 29

C5_Witness == Finished(1) /\ Len(calls[1]) = Len(ScriptCalls) /\ active[1] = <<>>

----------------------------------------------------------------------------
(* C6 *)

SameCall(c, d) == c.fn = d.fn /\ c.args = d.args

\* C6 (two runs that differ only in the IPython import, PairSpec): at any
\* time the calls one run has made are the first calls of the other, with
\* the same arguments; at the same line after the import the two runs have
\* made the same calls and hold the same figures and the same distance; and
\* have_ipython is the only name the two finished runs bind differently.
C6_FlagNeverRead ==
  /\ \A i \in 1..Len(calls[1]) : i <= Len(calls[2]) => SameCall(calls[1][i], calls[2][i])
  /\ (pc[1] = pc[2] /\ active[1] = active[2] /\ error[1] = error[2]) =>
       /\ Len(calls[1]) = Len(calls[2])
       /\ figures[1] = figures[2]
       /\ style[1] = style[2]
  /\ (pc[1] = pc[2] /\ pc[1] >= 23 /\ active[1] = active[2] /\ error[1] = error[2]) =>
       /\ DOMAIN globals[1] = DOMAIN globals[2] \cup {"clear_output"}
       /\ \A n \in DOMAIN globals[2] \ {"have_ipython"} : globals[1][n] = globals[2][n]

C6_Witness ==
  /\ Finished(1) /\ Finished(2)
  /\ globals[1].have_ipython = TRUE /\ globals[2].have_ipython = FALSE
  /\ Len(calls[1]) = Len(ScriptCalls) /\ figures[1] = figures[2]

----------------------------------------------------------------------------
(* C7 *)

C7State(r) ==
  /\ IsBound(globals[r], "time") => Len(globals[r].time) = NumSamples
  /\ Count(r, "_dtw_distance") = 1 =>
       /\ Len(DtwArgs(r)) = 2
       /\ Len(DtwArgs(r)[1]) = NumSamples
       /\ Len(DtwArgs(r)[2]) = NumSamples
       /\ \A i \in 1..NumSamples :
            /\ DtwArgs(r)[1][i] = [coef |-> 5, of |-> [sin |-> globals[r].time[i]]]
            /\ DtwArgs(r)[2][i].coef = 3
            /\ DtwArgs(r)[2][i].of.sin.den = globals[r].time[i].den
            /\ DtwArgs(r)[2][i].of.sin.num = globals[r].time[i].num + globals[r].time[i].den
  /\ \A f \in 1..Len(figures[r]) : \A i \in 1..Len(figures[r][f].lines) :
       /\ Len(figures[r][f].lines[i].x) = Len(figures[r][f].lines[i].y)
       /\ Len(figures[r][f].lines[i].x) = NumSamples
       /\ figures[r][f].lines[i].x = globals[r].time

\* C7: the two series passed to _dtw_distance have the length of the time
\* axis, 1000 samples, sample i of each being computed from sample i of
\* time, and every plotted line has an x and a y of that same length, its
\* x being time.
C7_EqualLengths == \A r \in Runs : C7State(r)

C7_Witness ==
  /\ Count(1, "_dtw_distance") = 1 /\ Len(DtwArgs(1)[2]) = NumSamples
  /\ figures[1] # <<>> /\ Len(figures[1][1].lines) = 2
  /\ globals[1].time[NumSamples] = [num |-> 20 * (NumSamples - 1), den |-> NumSamples - 1]

----------------------------------------------------------------------------
(* C8 *)

FigureComplete(r) ==
  /\ Len(figures[r]) = 1
  /\ Len(figures[r][1].lines) = 2
  /\ figures[r][1].lines[1].label = "A" /\ figures[r][1].lines[2].label = "B"
  /\ Len(figures[r][1].title) = 1
  /\ figures[r][1].ylabel = <<"Amplitude">>
  /\ figures[r][1].xlabel = <<"Time">>
  /\ figures[r][1].legend = << <<"A", "B">> >>
  /\ Count(r, "plt.figure") = 1 /\ Count(r, "plt.plot") = 2
  /\ Count(r, "plt.title") = 1 /\ Count(r, "plt.ylabel") = 1
  /\ Count(r, "plt.xlabel") = 1 /\ Count(r, "plt.legend") = 1

\* C8 (FairSpec): a run in which the imports do not end the run and the
\* KnnDtw constructor and _dtw_distance return reaches the end of the script,
\* and so does every run once _dtw_distance has returned; the run then has
\* made exactly one figure, with the two lines 'A' and 'B', one title, one
\* y-label, one x-label and one legend, and stays as it is.
C8_TerminatesWithOneFigure ==
  /\ \A r \in Runs :
       (WasStarted(r) /\ env[r].modules = "ok" /\ env[r].ipython # "error"
          /\ env[r].ctor = "ok" /\ env[r].dtw.outcome = "return")
         => <>[](Finished(r) /\ FigureComplete(r))
  /\ \A r \in Runs : (pc[r] >= 31) ~> (Finished(r) /\ FigureComplete(r))
  /\ [](\A r \in Runs : pc[r] = EndOfScript => (Finished(r) /\ FigureComplete(r)))
  /\ [](\A r \in Runs : Len(figures[r]) <= 1)

C8_Witness == Finished(1) /\ FigureComplete(1) /\ ~ENABLED Next

====
